---------------------------- MODULE Spec2Model ----------------------------
(***************************************************************************)
(* Model of the audio preprocessing tool (src/main.py).                    *)
(*                                                                         *)
(*   AudioProcessor            the model: file_path, original_format,      *)
(*                             audio, and the four pipeline stages         *)
(*   AudioProcessorController  load_audio, process_audio and the           *)
(*                             background process_thread closure           *)
(*   AudioProcessorView        the widgets the controller touches, the Tk  *)
(*                             "after" queue and the modal dialogs         *)
(*                                                                         *)
(* Two execution contexts exist: the Tk main loop (one handler at a time;  *)
(* a handler that opens a modal dialog keeps its frame while the dialog's  *)
(* own event loop goes on dispatching "after" callbacks) and the threads   *)
(* started by process_audio.  Strings the code parses (the normalization   *)
(* entry, the sample rate, the file path) are sequences of one-character   *)
(* strings, so that float(), int() and os.path.splitext() are computed.    *)
(* Messages are named in ASCII: NoFileSelected, NotANumber, MustBeNegative *)
(* stand for the three texts of process_audio, LoadError and               *)
(* ProcessingError for the prefixes of lines 38 and 70.                    *)
(***************************************************************************)
EXTENDS Integers, Sequences, FiniteSets, TLC

\* ------------------------------------------------------------------ bounds
\* Threads process_audio may start in one behaviour: of SpecTwo (and the
\* number of thread slots), of Spec, of SpecEntry and of SpecStages.
MaxJobs == 2
SpecJobs == 1
EntryJobs == 1
StageJobs == 1
\* Longest text typed into the normalization entry.
MaxStrLen == 2
\* Lowest peak level, in dB below full scale, of the buffers SpecPipeline
\* starts from.
MaxDb == 2

\* ----------------------------------------------------------------- strings
\* Characters the normalization entry may hold.
Alphabet == {"-", "0", "6", "a"}

Digits == {"0", "1", "2", "3", "4", "5", "6", "7", "8", "9"}

DigitVal(c) ==
    CASE c = "0" -> 0 [] c = "1" -> 1 [] c = "2" -> 2 [] c = "3" -> 3
      [] c = "4" -> 4 [] c = "5" -> 5 [] c = "6" -> 6 [] c = "7" -> 7
      [] c = "8" -> 8 [] c = "9" -> 9

AllDigits(s) == Len(s) > 0 /\ \A i \in 1..Len(s) : s[i] \in Digits

RECURSIVE DecimalValue(_)
DecimalValue(s) ==
    IF s = <<>> THEN 0
    ELSE 10 * DecimalValue(SubSeq(s, 1, Len(s) - 1)) + DigitVal(s[Len(s)])

\* All texts over Alphabet of length 0..n.
RECURSIVE StringsUpTo(_)
StringsUpTo(n) ==
    IF n = 0 THEN {<<>>}
    ELSE LET shorter == StringsUpTo(n - 1)
         IN  shorter \cup {Append(s, c) : s \in {t \in shorter : Len(t) = n - 1},
                                          c \in Alphabet}

\* params.get(key) of a key that is absent, or present with value None.
NoValue == <<"None">>

\* Python truthiness of a dictionary value that is None or a string.
Truthy(v) == v # NoValue /\ v # <<>>

\* float(s) on a text over Alphabet and Digits: an optional sign followed by
\* one or more digits parses; everything else raises ValueError with the
\* text "could not convert string to float".  v is the value; "-0" is 0.
float(s) ==
    LET neg  == Len(s) > 0 /\ s[1] = "-"
        body == IF neg THEN SubSeq(s, 2, Len(s)) ELSE s
    IN  IF AllDigits(body)
        THEN [ok |-> TRUE, v |-> IF neg THEN 0 - DecimalValue(body)
                                        ELSE DecimalValue(body)]
        ELSE [ok |-> FALSE, v |-> 0]

\* int(s) on a digit text (the sample rate and bit depth comboboxes).
int(s) == DecimalValue(s)

\* -------------------------------------------------------------------- files
\* Paths the file dialog or a drop may hand to load_audio: one the decoder
\* reads and one it rejects.
GoodPath == <<"a", ".", "W", "A", "V">>
BadPath == <<"b", ".", "m", "p", "3">>
Paths == {GoodPath, BadPath}

\* str.lower() on the characters paths are made of.
Lower(c) ==
    CASE c = "W" -> "w" [] c = "A" -> "a" [] c = "V" -> "v" [] OTHER -> c

\* Index of the last "." of a path, 0 when there is none.
LastDot(path) ==
    LET dots == {i \in 1..Len(path) : path[i] = "."}
    IN  IF dots = {} THEN 0 ELSE CHOOSE i \in dots : \A k \in dots : k <= i

\* os.path.splitext(file_path)[1][1:].lower()
Extension(path) ==
    LET d == LastDot(path)
    IN  IF d = 0 THEN <<>>
        ELSE [i \in 1..(Len(path) - d) |-> Lower(path[d + i])]

\* self.audio = None.
NoAudio ==
    [channels |-> 0, frame_rate |-> 0, sample_width |-> 0,
     max_dBFS |-> 0, mono_dBFS |-> 0]

\* AudioSegment.from_file: what the decoder yields for each path.  The peak
\* of the downmix (mono_dBFS) is a property of the samples, carried with the
\* buffer; levels are whole dB.
Decodable(path) == path = GoodPath
from_file(path) ==
    [channels |-> 2, frame_rate |-> 44100, sample_width |-> 2,
     max_dBFS |-> 0 - 3, mono_dBFS |-> 0 - 5]

\* ------------------------------------------------------------------- params
\* The dictionary _on_process builds from the widgets.
on_process(mono, normalize, entry, rate, fmt, option) ==
    [mono |-> mono,
     normalize |-> normalize,
     normalize_value |-> IF normalize THEN entry ELSE NoValue,
     sample_rate |-> rate,
     output_format |-> fmt,
     bit_depth |-> IF fmt = "wav" THEN option ELSE NoValue,
     bitrate |-> IF fmt = "mp3" THEN option ELSE NoValue,
     compression |-> IF fmt = "flac" THEN option ELSE NoValue,
     output_path |-> NoValue]

NoParams == on_process(FALSE, FALSE, <<>>, <<>>, "", NoValue)

Rate48000 == <<"4", "8", "0", "0", "0">>
Minus6 == <<"-", "6">>
Depth24 == <<"2", "4">>

\* Widget settings of Spec and SpecTwo: every optional stage off, and
\* normalization on.
JobParams ==
    {on_process(FALSE, FALSE, Minus6, <<>>, "wav", Depth24),
     on_process(FALSE, TRUE, Minus6, <<>>, "wav", Depth24)}

\* Widget settings of SpecStages: each optional stage on or off.
StageParams ==
    {on_process(m, n, Minus6, r, "wav", Depth24) :
        m \in BOOLEAN, n \in BOOLEAN, r \in {<<>>, Rate48000}}

\* Texts of the normalization entry in SpecEntry: the default -6 and every
\* text over Alphabet that is not a negative number.
EntryTexts ==
    {Minus6} \cup {e \in StringsUpTo(MaxStrLen) :
                     ~(float(e).ok /\ float(e).v < 0)}

\* Widget settings of SpecEntry: normalization ticked, with each text.
EntryParams ==
    {on_process(FALSE, TRUE, e, <<>>, "wav", Depth24) : e \in EntryTexts}

\* What asksaveasfilename returns: empty (a string or a tuple, by platform)
\* when the dialog is cancelled.
OutPath == <<"o">>
SavePaths == {<<>>, NoValue, OutPath}

\* Buffers a decoder may yield: mono or stereo, 16 or 24 bit, every peak
\* down to -MaxDb; the peak of the downmix is at most the peak, and is the
\* peak of a buffer that is mono already.
Buffers ==
    {a \in [channels : {1, 2}, frame_rate : {44100}, sample_width : {2, 3},
            max_dBFS : (0 - MaxDb)..0, mono_dBFS : (0 - MaxDb)..0] :
        IF a.channels = 1 THEN a.mono_dBFS = a.max_dBFS
        ELSE a.mono_dBFS <= a.max_dBFS}

\* Settings of SpecPipeline: each optional stage on or off with a 24 bit
\* wav, two more normalization targets, and every optional stage off with
\* each format and some of its options, "ogg" standing for a format the
\* comboboxes do not offer.
PipelineParams ==
    StageParams
      \cup {on_process(m, TRUE, t, <<>>, "wav", Depth24) :
              m \in BOOLEAN, t \in {<<"-", "1">>, <<"-", "6", "0">>}}
      \cup {on_process(FALSE, FALSE, Minus6, <<>>, "wav", o) :
              o \in {NoValue, <<"1", "6">>, <<"3", "2">>}}
      \cup {on_process(FALSE, FALSE, Minus6, <<>>, "mp3", o) :
              o \in {<<"1", "9", "2">>, <<"3", "2", "0">>}}
      \cup {on_process(FALSE, FALSE, Minus6, <<>>, "flac", o) :
              o \in {<<"0">>, <<"5">>}}
      \cup {on_process(FALSE, FALSE, Minus6, <<>>, "ogg", NoValue)}

\* ----------------------------------------------------------------- pipeline
\* The decoder collaborator (pydub), on the fields the program reads.
\* set_channels(1) replaces the peak by the peak of the channel average.
set_channels(a, n) ==
    IF a.channels = n THEN a
    ELSE [a EXCEPT !.channels = n, !.max_dBFS = a.mono_dBFS]

apply_gain(a, db) ==
    [a EXCEPT !.max_dBFS = a.max_dBFS + db, !.mono_dBFS = a.mono_dBFS + db]

set_frame_rate(a, hz) == [a EXCEPT !.frame_rate = hz]

set_sample_width(a, bytes) == [a EXCEPT !.sample_width = bytes]

\* A stage ends normally with the new self.audio, or raises.
Done(a) == [ok |-> TRUE, audio |-> a, cause |-> "", encoded |-> FALSE]
Raise(a, cause) == [ok |-> FALSE, audio |-> a, cause |-> cause, encoded |-> FALSE]

\* Calling a method of self.audio while it is None.
NoneType == "NoneType"

\* Mutant of process_channels: the downmix made whatever params say.
process_channels_always(a, params) ==
    IF a = NoAudio THEN Raise(a, NoneType) ELSE Done(set_channels(a, 1))

process_channels(a, params) ==
    IF params.mono
    THEN IF a = NoAudio THEN Raise(a, NoneType) ELSE Done(set_channels(a, 1))
    ELSE Done(a)

process_normalization(a, params) ==
    IF params.normalize /\ Truthy(params.normalize_value)
    THEN LET target_db == float(params.normalize_value)
         IN  IF ~target_db.ok THEN Raise(a, "ValueError")
             ELSE IF a = NoAudio THEN Raise(a, NoneType)
             ELSE Done(apply_gain(a, target_db.v - a.max_dBFS))
    ELSE Done(a)

process_sample_rate(a, params) ==
    IF Truthy(params.sample_rate)
    THEN IF ~AllDigits(params.sample_rate) THEN Raise(a, "ValueError")
         ELSE IF a = NoAudio THEN Raise(a, NoneType)
         ELSE Done(set_frame_rate(a, int(params.sample_rate)))
    ELSE Done(a)

\* Mutant of export_params: the bitrate and the compression level dropped.
export_params_dropped(params) == NoValue

\* The keyword arguments export() gets besides the path and the format.
export_params(params) ==
    IF params.output_format = "wav" /\ Truthy(params.bit_depth) THEN NoValue
    ELSE IF params.output_format = "mp3" /\ Truthy(params.bitrate)
         THEN params.bitrate
    ELSE IF params.output_format = "flac" /\ Truthy(params.compression)
         THEN params.compression
    ELSE NoValue

\* encoder_ok: whether AudioSegment.export (ffmpeg, the output file) succeeds.
process_export(a, params, encoder_ok) ==
    LET wav == params.output_format = "wav" /\ Truthy(params.bit_depth)
    IN  IF a = NoAudio THEN Raise(a, NoneType)
        ELSE IF wav /\ ~AllDigits(params.bit_depth) THEN Raise(a, "ValueError")
        ELSE LET b == IF wav
                      THEN set_sample_width(a, int(params.bit_depth) \div 8)
                      ELSE a
             IN  IF encoder_ok THEN [Done(b) EXCEPT !.encoded = TRUE]
                 ELSE [Raise(b, "EncodeError") EXCEPT !.encoded = TRUE]

\* Mutant of steps: normalization placed before the channel stage.
steps_normalization_first ==
    << [stage |-> "normalization", start |-> 10, end |-> 30],
       [stage |-> "channels", start |-> 30, end |-> 50],
       [stage |-> "sample_rate", start |-> 50, end |-> 70],
       [stage |-> "export", start |-> 70, end |-> 100] >>

\* steps of AudioProcessor.process_audio: (stage, start, end).
steps ==
    << [stage |-> "channels", start |-> 10, end |-> 30],
       [stage |-> "normalization", start |-> 30, end |-> 50],
       [stage |-> "sample_rate", start |-> 50, end |-> 70],
       [stage |-> "export", start |-> 70, end |-> 100] >>

step_func(k, a, params, encoder_ok) ==
    CASE steps[k].stage = "channels" -> process_channels(a, params)
      [] steps[k].stage = "normalization" -> process_normalization(a, params)
      [] steps[k].stage = "sample_rate" -> process_sample_rate(a, params)
      [] steps[k].stage = "export" -> process_export(a, params, encoder_ok)

\* Mutant of Midpoint: the end of the range instead of its midpoint.
Midpoint_end(start, end) == end

\* start + (end - start)//2
Midpoint(start, end) == start + (end - start) \div 2

\* -------------------------------------------------------------------- state
VARIABLES
    pydub_available,  \* PYDUB_AVAILABLE, fixed at import
    file_path,        \* AudioProcessor.file_path
    original_format,  \* AudioProcessor.original_format
    audio,            \* AudioProcessor.audio
    processing,       \* AudioProcessorController.processing
    txt_info,         \* the view's info text: the last dictionary shown
    btn_state,        \* state of the four controls set_processing_state sets
    progress,         \* value of the progress bar
    afterq,           \* callbacks scheduled with master.after(0, ...), in order
    modal,            \* handlers blocked in a modal dialog, innermost last
    thread,           \* the threads process_audio started
    exported,         \* what the last export() call handed to the encoder
    call,             \* the controller call this step made: the kind of
                      \* normalization text it got and its outcome
    reported,         \* per job: the values passed to update_progress
    terminal,         \* per job: the terminal notifications scheduled
    uilog             \* per job: what reached the user, in order

vars ==
    << pydub_available, file_path, original_format, audio, processing,
       txt_info, btn_state, progress, afterq, modal, thread, exported, call,
       reported, terminal, uilog >>

model_vars == << file_path, original_format, audio >>
view_vars == << txt_info, btn_state, progress >>
ghost_vars == << reported, terminal, uilog >>

Jobs == 1..MaxJobs

NoThread == [pc |-> "unstarted", k |-> 0, params |-> NoParams, cause |-> ""]
NoCall == [op |-> "none", entry |-> "none", result |-> ""]
NoExport == [audio |-> NoAudio, format |-> "", kwargs |-> NoValue, path |-> NoValue]
NoInfo == [audio |-> NoAudio, original_format |-> <<>>]

\* Threads that were started, and those that have not returned yet.
Started == {j \in Jobs : thread[j].pc # "unstarted"}
Alive == {j \in Started : thread[j].pc # "done"}

\* A scheduled callback.  by: the view method that scheduled a configure.
Callback(op, job, value, by, cause) ==
    [op |-> op, job |-> job, value |-> value, by |-> by, cause |-> cause]

\* An entry of uilog: a progress bar value, a message box, the controls.
Seen(k, v, cause) == [k |-> k, v |-> v, cause |-> cause]

Init ==
    /\ pydub_available \in BOOLEAN
    /\ file_path = <<>>
    /\ original_format = <<>>
    /\ audio = NoAudio
    /\ processing = FALSE
    /\ txt_info = NoInfo
    /\ btn_state = "normal"
    /\ progress = 0
    /\ afterq = <<>>
    /\ modal = <<>>
    /\ thread = [j \in Jobs |-> NoThread]
    /\ exported = NoExport
    /\ call = NoCall
    /\ reported = [j \in Jobs |-> <<>>]
    /\ terminal = [j \in Jobs |-> <<>>]
    /\ uilog = [j \in Jobs |-> <<>>]

\* ------------------------------------------------------------- load_audio
\* get_audio_info: the dictionary of a loaded buffer.
get_audio_info(a, fmt) == [audio |-> a, original_format |-> fmt]

\* AudioProcessor.load_audio, as the assignments it makes before from_file
\* returns or raises: [file_path, original_format, audio, ok].
model_load_audio(path, old_audio) ==
    [file_path |-> path,
     original_format |-> Extension(path),
     audio |-> IF Decodable(path) THEN from_file(path) ELSE old_audio,
     ok |-> Decodable(path)]

\* AudioProcessorController.load_audio, run by the main loop (the file
\* button or a drop) when no modal dialog holds the window.
load_audio(path) ==
    /\ modal = <<>>
    /\ IF ~pydub_available
       THEN /\ call' = [NoCall EXCEPT !.op = "load_audio", !.result = "NoPydub"]
            /\ UNCHANGED << model_vars, txt_info >>
       ELSE LET r == model_load_audio(path, audio)
            IN  /\ file_path' = r.file_path
                /\ original_format' = r.original_format
                /\ audio' = r.audio
                /\ txt_info' = IF r.ok
                               THEN get_audio_info(r.audio, r.original_format)
                               ELSE txt_info
                /\ call' = [NoCall EXCEPT !.op = "load_audio",
                                !.result = IF r.ok THEN "ok" ELSE "LoadError"]
    /\ UNCHANGED << pydub_available, processing, btn_state, progress, afterq,
                    modal, thread, exported, ghost_vars >>

\* ----------------------------------------------------------- process_audio
\* Mutant of validate: the sign test written > 0, letting 0 through.
validate_zero_passes(params) ==
    IF params.normalize /\ Truthy(params.normalize_value)
    THEN LET db_value == float(params.normalize_value)
         IN  IF ~db_value.ok THEN "NotANumber"
             ELSE IF db_value.v > 0 THEN "MustBeNegative"
             ELSE "ok"
    ELSE "ok"

\* The normalization check of process_audio: float() raising gives
\* NotANumber (its text holds "could not convert"), a value >= 0 gives
\* MustBeNegative.
validate(params) ==
    IF params.normalize /\ Truthy(params.normalize_value)
    THEN LET db_value == float(params.normalize_value)
         IN  IF ~db_value.ok THEN "NotANumber"
             ELSE IF db_value.v >= 0 THEN "MustBeNegative"
             ELSE "ok"
    ELSE "ok"

\* Where process_audio leaves, in the order of its checks: with a message,
\* silently because a job runs, or into the save dialog.
submit_outcome(path, params, busy) ==
    IF ~Truthy(path) THEN "NoFileSelected"
    ELSE IF validate(params) # "ok" THEN validate(params)
    ELSE IF busy THEN "Busy"
    ELSE "Prompt"

\* The kind of normalization text a call got: none (normalize not ticked),
\* empty, unparsable for float(), or a number that is nonneg or negative.
EntryKind(params) ==
    IF ~params.normalize \/ params.normalize_value = NoValue THEN "none"
    ELSE IF params.normalize_value = <<>> THEN "empty"
    ELSE IF ~float(params.normalize_value).ok THEN "unparsable"
    ELSE IF float(params.normalize_value).v >= 0 THEN "nonneg"
    ELSE "negative"

SubmitCall(params, result) ==
    [op |-> "process_audio", entry |-> EntryKind(params), result |-> result]

\* A handler blocked in a modal dialog.
Frame(kind, job, params) == [kind |-> kind, job |-> job, params |-> params]

\* AudioProcessorController.process_audio up to the return of a message or
\* the opening of the save dialog (ask_save_path blocks in it).
process_audio(params) ==
    LET outcome == submit_outcome(file_path, params, processing)
    IN  /\ modal = <<>>
        /\ call' = SubmitCall(params, outcome)
        /\ modal' = IF outcome = "Prompt"
                    THEN Append(modal, Frame("save", 0, params))
                    ELSE modal
        /\ UNCHANGED << pydub_available, model_vars, processing, view_vars,
                        afterq, thread, exported, ghost_vars >>

\* Mutant of start_processing: the flag is not set before the thread starts.
start_processing_unflagged(queue, job) ==
    [processing |-> FALSE,
     btn_state |-> "disabled",
     afterq |-> Append(queue, Callback("configure", job, 0, "reset_progress", ""))]

\* The state process_audio sets before Thread(...).start().
start_processing(queue, job) ==
    [processing |-> TRUE,
     btn_state |-> "disabled",
     afterq |-> Append(queue, Callback("configure", job, 0, "reset_progress", ""))]

\* Mutant of cancelled: the test of the returned path left out.
cancelled_never(output_path) == FALSE

\* if not output_path: return
cancelled(output_path) == ~Truthy(output_path)

\* ask_save_path returns and process_audio runs to its end: a cancelled
\* dialog returns, a path starts the thread.
ask_save_path_return(output_path) ==
    /\ modal # <<>>
    /\ modal[Len(modal)].kind = "save"
    /\ LET params == [modal[Len(modal)].params EXCEPT !.output_path = output_path]
           job == Cardinality(Started) + 1
           s == start_processing(afterq, job)
       IN  /\ modal' = SubSeq(modal, 1, Len(modal) - 1)
           /\ IF cancelled(output_path)
              THEN /\ call' = SubmitCall(params, "Cancelled")
                   /\ UNCHANGED << processing, btn_state, afterq, thread >>
              ELSE /\ call' = SubmitCall(params, "Started")
                   /\ processing' = s.processing
                   /\ btn_state' = s.btn_state
                   /\ afterq' = s.afterq
                   /\ thread' = [thread EXCEPT ![job] =
                          [pc |-> "steps", k |-> 1, params |-> params,
                           cause |-> ""]]
    /\ UNCHANGED << pydub_available, model_vars, txt_info, progress, exported,
                    ghost_vars >>

\* ---------------------------------------------------------- process_thread
\* View.update_progress / reset_progress: schedule the configure call.
update_progress(queue, job, value) ==
    Append(queue, Callback("configure", job, value, "update_progress", ""))

reset_progress(queue, job) ==
    Append(queue, Callback("configure", job, 0, "reset_progress", ""))

\* One turn of the loop of AudioProcessor.process_audio: the stage, then the
\* progress callback; an exception leaves the loop for the except clause.
thread_steps(j) ==
    /\ thread[j].pc = "steps"
    /\ \E encoder_ok \in BOOLEAN :
         LET t == thread[j]
             r == step_func(t.k, audio, t.params, encoder_ok)
             value == Midpoint(steps[t.k].start, steps[t.k].end)
         IN  /\ steps[t.k].stage # "export" => encoder_ok
             /\ audio' = r.audio
             /\ exported' = IF r.encoded
                            THEN [audio |-> r.audio,
                                  format |-> t.params.output_format,
                                  kwargs |-> export_params(t.params),
                                  path |-> t.params.output_path]
                            ELSE exported
             /\ IF r.ok
                THEN /\ afterq' = update_progress(afterq, j, value)
                     /\ reported' = [reported EXCEPT ![j] = Append(@, value)]
                     /\ thread' = [thread EXCEPT ![j] =
                            IF t.k < Len(steps) THEN [t EXCEPT !.k = t.k + 1]
                            ELSE [t EXCEPT !.pc = "try_end"]]
                ELSE /\ thread' = [thread EXCEPT ![j] =
                            [t EXCEPT !.pc = "except", !.cause = r.cause]]
                     /\ UNCHANGED << afterq, reported >>
    /\ call' = NoCall
    /\ UNCHANGED << pydub_available, file_path, original_format, processing,
                    view_vars, modal, terminal, uilog >>

\* Mutant of notification: the success callback scheduled on every path, as
\* if it stood after the try statement.
notification_success_always(j, pc, cause) ==
    IF pc = "try_end" THEN << Callback("success", j, 0, "", "") >>
    ELSE << Callback("error", j, 0, "", cause),
            Callback("success", j, 0, "", "") >>

\* Mutant of notification: the error callback without the text of the
\* exception.
notification_without_cause(j, pc, cause) ==
    IF pc = "try_end" THEN << Callback("success", j, 0, "", "") >>
    ELSE << Callback("error", j, 0, "", "") >>

\* The callbacks process_thread schedules when the pipeline returned
\* (try_end) or raised (except).
notification(j, pc, cause) ==
    IF pc = "try_end" THEN << Callback("success", j, 0, "", "") >>
    ELSE << Callback("error", j, 0, "", cause) >>

thread_notify(j) ==
    /\ thread[j].pc \in {"try_end", "except"}
    /\ LET n == notification(j, thread[j].pc, thread[j].cause)
       IN  /\ afterq' = afterq \o n
           /\ terminal' = [terminal EXCEPT ![j] =
                  @ \o [i \in 1..Len(n) |-> n[i].op]]
    /\ thread' = [thread EXCEPT ![j].pc = "finally"]
    /\ call' = NoCall
    /\ UNCHANGED << pydub_available, model_vars, processing, view_vars, modal,
                    exported, reported, uilog >>

\* finally: self.processing = False
thread_finally(j) ==
    /\ thread[j].pc = "finally"
    /\ processing' = FALSE
    /\ thread' = [thread EXCEPT ![j].pc = "after"]
    /\ call' = NoCall
    /\ UNCHANGED << pydub_available, model_vars, view_vars, afterq, modal,
                    exported, ghost_vars >>

\* finally: the cleanup callback is scheduled and the thread returns.
thread_after(j) ==
    /\ thread[j].pc = "after"
    /\ afterq' = Append(afterq, Callback("cleanup", j, 0, "", ""))
    /\ thread' = [thread EXCEPT ![j] = [NoThread EXCEPT !.pc = "done"]]
    /\ call' = NoCall
    /\ UNCHANGED << pydub_available, model_vars, processing, view_vars, modal,
                    exported, ghost_vars >>

\* ------------------------------------------------------------- main loop
\* The main loop (or the loop of an open modal dialog) runs the oldest
\* scheduled callback.
after_dispatch ==
    /\ afterq # <<>>
    /\ LET h == Head(afterq)
           rest == Tail(afterq)
       IN  CASE h.op = "configure" ->
                  /\ progress' = h.value
                  /\ uilog' = [uilog EXCEPT ![h.job] =
                         Append(@, Seen(h.by, h.value, ""))]
                  /\ afterq' = rest
                  /\ UNCHANGED << btn_state, modal >>
             [] h.op = "success" ->
                  \* show_message blocks in the dialog; update_progress(100)
                  \* waits for it to close
                  /\ uilog' = [uilog EXCEPT ![h.job] =
                         Append(@, Seen("success", 0, ""))]
                  /\ modal' = Append(modal, Frame("info", h.job, NoParams))
                  /\ afterq' = rest
                  /\ UNCHANGED << btn_state, progress >>
             [] h.op = "error" ->
                  /\ uilog' = [uilog EXCEPT ![h.job] =
                         Append(@, Seen("error", 0, h.cause))]
                  /\ afterq' = rest
                  /\ UNCHANGED << btn_state, progress, modal >>
             [] h.op = "cleanup" ->
                  /\ btn_state' = "readonly"
                  /\ uilog' = [uilog EXCEPT ![h.job] =
                         Append(@, Seen("enabled", 0, ""))]
                  /\ afterq' = reset_progress(rest, h.job)
                  /\ UNCHANGED << progress, modal >>
    /\ call' = NoCall
    /\ UNCHANGED << pydub_available, model_vars, processing, txt_info, thread,
                    exported, reported, terminal >>

\* The success message box is closed: the lambda goes on to
\* update_progress(100).
info_dialog_close ==
    /\ modal # <<>>
    /\ modal[Len(modal)].kind = "info"
    /\ LET job == modal[Len(modal)].job
       IN  /\ afterq' = update_progress(afterq, job, 100)
           /\ reported' = [reported EXCEPT ![job] = Append(@, 100)]
    /\ modal' = SubSeq(modal, 1, Len(modal) - 1)
    /\ call' = NoCall
    /\ UNCHANGED << pydub_available, model_vars, processing, view_vars, thread,
                    exported, terminal, uilog >>

\* ------------------------------------------------------- specifications
Background ==
    \/ \E j \in Jobs : thread_steps(j)
    \/ \E j \in Jobs : thread_notify(j)
    \/ \E j \in Jobs : thread_finally(j)
    \/ \E j \in Jobs : thread_after(j)

MainLoop ==
    \/ \E output_path \in SavePaths : ask_save_path_return(output_path)
    \/ after_dispatch
    \/ info_dialog_close

\* The process button (_on_process): process_audio with the widgets'
\* settings; a submit that would start a thread is taken while fewer than
\* cap threads were started.
submit(params, cap) ==
    /\ submit_outcome(file_path, params, processing) = "Prompt"
          => Cardinality(Started) < cap
    /\ process_audio(params)

\* Interleavings of the handlers, the callbacks and the threads.
Next ==
    \/ \E path \in Paths : load_audio(path)
    \/ \E params \in JobParams : submit(params, SpecJobs)
    \/ MainLoop
    \/ Background

Spec == Init /\ [][Next]_vars

\* The same program with room for a second thread.
NextTwo ==
    \/ \E path \in Paths : load_audio(path)
    \/ \E params \in JobParams : submit(params, MaxJobs)
    \/ MainLoop
    \/ Background

SpecTwo == Init /\ [][NextTwo]_vars

\* The same program driven with every text of the normalization entry.
NextEntry ==
    \/ \E path \in Paths : load_audio(path)
    \/ \E params \in EntryParams : submit(params, EntryJobs)
    \/ MainLoop
    \/ Background

SpecEntry == Init /\ [][NextEntry]_vars

\* The same program driven with each optional stage on and off.
NextStages ==
    \/ \E path \in Paths : load_audio(path)
    \/ \E params \in StageParams : submit(params, StageJobs)
    \/ MainLoop
    \/ Background

SpecStages == Init /\ [][NextStages]_vars

\* The pipeline on its own: the program just after process_audio started a
\* thread, for each buffer a load may have left (none after a failed first
\* load) and each setting; no further load or submit is made.
InitPipeline ==
    \E a \in Buffers \cup {NoAudio}, params \in PipelineParams :
        LET path == IF a = NoAudio THEN BadPath ELSE GoodPath
            s == start_processing(<<>>, 1)
        IN  /\ pydub_available = TRUE
            /\ file_path = path
            /\ original_format = Extension(path)
            /\ audio = a
            /\ processing = s.processing
            /\ txt_info = IF a = NoAudio THEN NoInfo
                          ELSE get_audio_info(a, Extension(path))
            /\ btn_state = s.btn_state
            /\ progress = 0
            /\ afterq = s.afterq
            /\ modal = <<>>
            /\ thread = [j \in Jobs |->
                   IF j = 1
                   THEN [pc |-> "steps", k |-> 1,
                         params |-> [params EXCEPT !.output_path = OutPath],
                         cause |-> ""]
                   ELSE NoThread]
            /\ exported = NoExport
            /\ call = SubmitCall(params, "Started")
            /\ reported = [j \in Jobs |-> <<>>]
            /\ terminal = [j \in Jobs |-> <<>>]
            /\ uilog = [j \in Jobs |-> <<>>]

NextPipeline ==
    \/ after_dispatch
    \/ info_dialog_close
    \/ Background

SpecPipeline == InitPipeline /\ [][NextPipeline]_vars

\* ------------------------------------------------------------------ claims
\* A job between the start of stage 1 and the scheduling of its terminal
\* notification.
InPipeline(j) == thread[j].pc \in {"steps", "try_end", "except"}

\* Everything job j scheduled has run and its thread has returned.
Finished(j) ==
    /\ thread[j].pc = "done"
    /\ \A i \in 1..Len(afterq) : afterq[i].job # j
    /\ \A i \in 1..Len(modal) : modal[i].job # j

IsBar(e) == e.k \in {"update_progress", "reset_progress"}
IsTerminal(e) == e.k \in {"success", "error"}

IsPrefix(a, b) == Len(a) <= Len(b) /\ a = SubSeq(b, 1, Len(a))

\* C1: at most one thread started by process_audio exists at a time (and a
\* submit while a job runs changes nothing).
C1_AtMostOneWorker == Cardinality(Alive) <= 1

\* C2: a job whose pipeline has not ended has scheduled no terminal
\* notification; once it has ended, on success or on failure at any stage,
\* exactly one is scheduled, a success or an error, and no more than that one
\* is ever shown.
C2_ExactlyOneTerminal ==
    \A j \in Jobs :
        /\ thread[j].pc \in {"unstarted", "steps", "try_end", "except"}
              => terminal[j] = <<>>
        /\ thread[j].pc \in {"finally", "after", "done"}
              => /\ Len(terminal[j]) = 1
                 /\ terminal[j][1] \in {"success", "error"}
        /\ Len(SelectSeq(uilog[j], IsTerminal)) <= 1
        /\ Finished(j) => Len(SelectSeq(uilog[j], IsTerminal)) = 1

C2_FailedAtStage2 ==
    \E j \in Jobs :
        /\ thread[j].pc = "finally"
        /\ thread[j].k = 2
        /\ thread[j].cause = NoneType
        /\ terminal[j] = << "error" >>

\* C3: no value passed to update_progress reaches the progress bar after the
\* job's success or error message was shown.
C3_ProgressBeforeTerminal ==
    \A j \in Jobs :
        \A i, k \in 1..Len(uilog[j]) :
            (IsTerminal(uilog[j][i]) /\ uilog[j][k].k = "update_progress")
                => k < i

\* C4: the values a job passes to update_progress are 20, 40, 60, 85 and
\* then 100, in this order: the first four once the pipeline has returned,
\* whichever stages were triggered, all five once the success box is closed,
\* and they reach the progress bar in the same order.
ProgressValues == << 20, 40, 60, 85, 100 >>

IsUpdate(e) == e.k = "update_progress"

Shown(j) ==
    LET bars == SelectSeq(uilog[j], IsUpdate)
    IN  [i \in 1..Len(bars) |-> bars[i].v]

C4_ProgressSequence ==
    \A j \in Jobs :
        /\ IsPrefix(reported[j], ProgressValues)
        /\ IsPrefix(Shown(j), reported[j])
        /\ terminal[j] = << "success" >> => Len(reported[j]) >= 4
        /\ terminal[j] = << "error" >> => Len(reported[j]) < 4
        /\ (Finished(j) /\ terminal[j] = << "success" >>)
              => /\ reported[j] = ProgressValues
                 /\ Shown(j) = ProgressValues

C4_AllFiveReported ==
    \E j \in Jobs : Finished(j) /\ Shown(j) = ProgressValues

\* The step made a process_audio call with normalize ticked and a text that
\* parses to a value >= 0.
TargetNotNegative == call.op = "process_audio" /\ call.entry = "nonneg"

\* The step made a process_audio call with normalize ticked and a text that
\* float() rejects, the empty text included.
TargetNotANumber ==
    call.op = "process_audio" /\ call.entry \in {"empty", "unparsable"}

\* C5 as claimed: every submit with normalize ticked and a target >= 0
\* reports MustBeNegative.
C5_AlwaysMustBeNegative ==
    TargetNotNegative => call.result = "MustBeNegative"

\* C5 as amended: when a file path is set, a submit with normalize ticked
\* and a target >= 0 reports MustBeNegative and changes nothing else: no
\* save dialog opens, no thread starts, no callback is scheduled, and the
\* processing flag, the model and the view stay as they were.
C5_MustBeNegative ==
    [][(TargetNotNegative' /\ Truthy(file_path'))
          => /\ call'.result = "MustBeNegative"
             /\ UNCHANGED << pydub_available, model_vars, processing,
                             view_vars, afterq, modal, thread, exported,
                             ghost_vars >>]_vars

C5_RejectedWhileIdle ==
    /\ TargetNotNegative
    /\ call.result = "MustBeNegative"
    /\ audio # NoAudio
    /\ ~processing
    /\ Started = {}

\* C6: when a file path is set, every submit with normalize ticked and a
\* text that float() rejects, the empty text included, reports NotANumber.
C6_NotANumber ==
    (TargetNotANumber /\ Truthy(file_path)) => call.result = "NotANumber"

\* C7: while no load has succeeded (self.audio is still None), every submit
\* reports NoFileSelected, no save dialog is open and no thread was started.
C7_NoFileSelected ==
    audio = NoAudio
        => /\ call.op = "process_audio" => call.result = "NoFileSelected"
           /\ \A i \in 1..Len(modal) : modal[i].kind # "save"
           /\ Started = {}

\* C8: while a job is in its pipeline, a load_audio call leaves the buffer,
\* the source path and the original format as they are.
C8_BufferOwnedByPipeline ==
    [][((\E j \in Jobs : InPipeline(j)) /\ call'.op = "load_audio")
          => UNCHANGED model_vars]_vars

\* C9: the processing flag is true from the start of a thread until that
\* thread has scheduled its terminal notification: it is set when the thread
\* starts, and no thread that is still in a stage, or has not yet scheduled
\* its success or error callback, sees it false.
C9_FlagCoversPipeline ==
    \A j \in Jobs :
        /\ InPipeline(j) => processing
        /\ (j \in Started /\ terminal[j] = <<>>) => processing
        /\ thread[j].pc = "after" => terminal[j] # <<>>

C9_ClearedAfterNotification ==
    \E j \in Jobs :
        /\ thread[j].pc = "after"
        /\ ~processing
        /\ terminal[j] = << "success" >>

\* The last value job j's callbacks gave the progress bar.
LastBar(j) ==
    LET bars == SelectSeq(uilog[j], IsBar)
    IN  IF bars = <<>> THEN 0 ELSE bars[Len(bars)].v

\* C10: once a job has ended and everything it scheduled has run, the last
\* value it gave the progress bar is 0.
C10_ProgressResetAtEnd ==
    \A j \in Jobs : Finished(j) => LastBar(j) = 0

\* Formats the export stage is specified for.
SupportedFormats == {"wav", "mp3", "flac"}

\* C11: a job whose output format is not wav, mp3 or flac never hands a
\* buffer to the encoder, never returns from the pipeline normally and
\* schedules no notification but an error.
C11_UnsupportedFormat ==
    \A j \in Jobs :
        (thread[j].pc \notin {"unstarted", "done"}
           /\ thread[j].params.output_format \notin SupportedFormats)
            => /\ exported = NoExport
               /\ thread[j].pc # "try_end"
               /\ terminal[j] # <<>> => terminal[j] = << "error" >>

\* C12: every thread runs with a non-empty output path, and the step in
\* which the save dialog returns an empty or absent path changes nothing
\* but the dialog: the flag stays false, no thread starts, no callback is
\* scheduled, the progress bar, the controls and the model stay as they are.
C12_CancelAborts ==
    /\ [](\A j \in Alive : Truthy(thread[j].params.output_path))
    /\ [][(call'.op = "process_audio" /\ call'.result = "Cancelled")
            => /\ ~processing'
               /\ UNCHANGED << pydub_available, model_vars, processing,
                               view_vars, afterq, thread, exported,
                               ghost_vars >>]_vars

C12_Cancelled ==
    /\ call.op = "process_audio"
    /\ call.result = "Cancelled"
    /\ audio # NoAudio
    /\ Started = {}
    /\ modal = <<>>

\* The job's params switch every optional stage off and carry no bit depth.
AllStagesOff(params) ==
    /\ ~params.mono
    /\ ~params.normalize
    /\ ~Truthy(params.sample_rate)
    /\ ~Truthy(params.bit_depth)

\* C13: a job on a buffer as loaded, with mono and normalize off, no sample
\* rate and no bit depth, hands the encoder a buffer with the channel count,
\* the sample rate and the sample width the load showed.
C13_RoundTrip ==
    \A j \in Alive :
        (AllStagesOff(thread[j].params) /\ exported # NoExport)
            => /\ exported.audio.channels = txt_info.audio.channels
               /\ exported.audio.frame_rate = txt_info.audio.frame_rate
               /\ exported.audio.sample_width = txt_info.audio.sample_width

C13_StereoExported ==
    \E j \in Alive :
        /\ AllStagesOff(thread[j].params)
        /\ thread[j].pc = "try_end"
        /\ exported.format = "mp3"
        /\ exported.audio.channels = 2
        /\ exported.audio.sample_width = 3

\* C14: a process_audio call made while the processing flag is true leaves
\* silently, whatever its params: it reports no validation error and no
\* other message.  (Started and Cancelled are the returns of the save
\* dialog, which opens only while the flag is false.)
C14_RunningCheckedFirst ==
    (processing /\ call.op = "process_audio"
       /\ call.result \notin {"Started", "Cancelled"})
        => call.result = "Busy"

\* The values the four stages report.
StageValues == << 20, 40, 60, 85 >>

\* The causes a stage can fail with.
Causes == {NoneType, "ValueError", "EncodeError"}

\* The job's error callback, scheduled or shown, wherever it is.
ErrorCauses(j) ==
    {afterq[i].cause : i \in {n \in 1..Len(afterq) :
                                afterq[n].job = j /\ afterq[n].op = "error"}}
      \cup {uilog[j][i].cause : i \in {n \in 1..Len(uilog[j]) :
                                         uilog[j][n].k = "error"}}

\* The job left the loop of stages through an exception.
Failed(j) ==
    thread[j].pc \in {"except", "finally", "after"} /\ thread[j].cause # ""

\* C15: the stages run in the order of steps, each reporting its value when
\* it returns; the encoder is reached only after three stages have reported;
\* a job that failed in stage k has reported exactly the first k-1 of 20, 40,
\* 60, 85 and never reports 100, its error callback carries the cause, and
\* from the failure on no stage runs: the buffer, the encoder's input and
\* the reported values stay as they are.
C15_FailureAborts ==
    /\ [](\A j \in Alive :
            /\ thread[j].pc = "steps"
                  => reported[j] = SubSeq(StageValues, 1, thread[j].k - 1)
            /\ Failed(j)
                  => /\ thread[j].k \in 1..Len(steps)
                     /\ thread[j].cause \in Causes
                     /\ reported[j] = SubSeq(StageValues, 1, thread[j].k - 1)
                     /\ thread[j].k < Len(steps) => exported = NoExport
                     /\ ErrorCauses(j) \subseteq {thread[j].cause}
            /\ (thread[j].pc \in {"finally", "after"} /\ Failed(j))
                  => terminal[j] = << "error" >>)
    /\ [](\A j \in Jobs :
            terminal[j] = << "error" >>
                => /\ Len(reported[j]) < Len(StageValues)
                   /\ IsPrefix(reported[j], StageValues)
                   /\ ErrorCauses(j) \subseteq Causes)
    /\ [][\A j \in Jobs :
            (Failed(j) \/ terminal[j] = << "error" >>)
                => /\ thread'[j].pc # "steps"
                   /\ audio' = audio
                   /\ exported' = exported
                   /\ reported'[j] = reported[j]]_vars

C15_FailedAtStage3 ==
    \E j \in Jobs :
        /\ thread[j].pc = "done"
        /\ reported[j] = << 20, 40 >>
        /\ terminal[j] = << "error" >>
        /\ \E i \in 1..Len(uilog[j]) :
              uilog[j][i].k = "error" /\ uilog[j][i].cause = NoneType

\* C16: whenever the processing flag is true and no scheduled callback is
\* waiting, the controls set_processing_state sets are disabled.
C16_ControlsDisabledWhileRunning ==
    (processing /\ afterq = <<>>) => btn_state = "disabled"

\* The job normalizes: normalize is ticked and the text is a number below 0.
Normalizes(params) ==
    /\ params.normalize
    /\ Truthy(params.normalize_value)
    /\ float(params.normalize_value).ok
    /\ float(params.normalize_value).v < 0

\* The peak of the loaded buffer once the channel stage has run.
PeakAfterChannels(loaded, params) ==
    IF params.mono THEN loaded.mono_dBFS ELSE loaded.max_dBFS

\* C17: when stage 2 of a normalizing job with target t has returned, the
\* gain it applied (the shift of every level of the buffer) is t minus the
\* peak the buffer had after the channel stage, and the peak is t.
C17_NormalizedPeak ==
    \A j \in Alive :
        (thread[j].pc = "steps" /\ thread[j].k = 3
           /\ Normalizes(thread[j].params) /\ audio # NoAudio)
            => LET t == float(thread[j].params.normalize_value).v
                   loaded == txt_info.audio
               IN  /\ audio.mono_dBFS - loaded.mono_dBFS
                        = t - PeakAfterChannels(loaded, thread[j].params)
                   /\ audio.max_dBFS = t

C17_DownmixChangedPeak ==
    \E j \in Alive :
        /\ thread[j].pc = "steps"
        /\ thread[j].k = 3
        /\ thread[j].params.mono
        /\ Normalizes(thread[j].params)
        /\ txt_info.audio.channels = 2
        /\ txt_info.audio.mono_dBFS < txt_info.audio.max_dBFS
        /\ audio.channels = 1
        /\ audio.max_dBFS = 0 - 6

\* C18: the buffer a wav job with bit depth b hands to the encoder has a
\* sample width of b/8 bytes (3 for b = 24) and goes without an encoder
\* parameter; the buffer of an mp3 or flac job has the sample width of the
\* loaded buffer, and its bitrate or compression level is the encoder
\* parameter.
C18_ExportWidth ==
    \A j \in Alive :
        exported # NoExport
            => LET p == thread[j].params
               IN  /\ (p.output_format = "wav" /\ Truthy(p.bit_depth))
                         => /\ exported.audio.sample_width * 8 = int(p.bit_depth)
                            /\ p.bit_depth = Depth24
                                  => exported.audio.sample_width = 3
                            /\ exported.kwargs = NoValue
                   /\ p.output_format = "mp3"
                         => /\ exported.audio.sample_width
                                  = txt_info.audio.sample_width
                            /\ exported.kwargs = p.bitrate
                   /\ p.output_format = "flac"
                         => /\ exported.audio.sample_width
                                  = txt_info.audio.sample_width
                            /\ exported.kwargs = p.compression

C18_Wav24FromSixteen ==
    \E j \in Alive :
        /\ thread[j].params.output_format = "wav"
        /\ thread[j].params.bit_depth = Depth24
        /\ txt_info.audio.sample_width = 2
        /\ exported.format = "wav"
        /\ exported.audio.sample_width = 3

\* C19: the buffer a job starts from (its thread is about to run stage 1)
\* has the channel count, sample rate, sample width and peak of the file as
\* the last successful load showed it.
C19_JobStartsFromLoadedFile ==
    \A j \in Jobs :
        (thread[j].pc = "steps" /\ thread[j].k = 1 /\ audio # NoAudio)
            => /\ audio.channels = txt_info.audio.channels
               /\ audio.frame_rate = txt_info.audio.frame_rate
               /\ audio.sample_width = txt_info.audio.sample_width
               /\ audio.max_dBFS = txt_info.audio.max_dBFS

\* C20: a load_audio call that ends in the load error leaves the source
\* path, the original format and the buffer as they were.
C20_LoadAtomic ==
    [][(call'.op = "load_audio" /\ call'.result = "LoadError")
          => UNCHANGED model_vars]_vars

=============================================================================
